---- MODULE Spec2Model ----
(***************************************************************************)
(* A model of compare-davidjones-and-iconic.py: the Listing Scraper        *)
(* (scrape_iconic), the Product Detail Extractor (get_product_info), the   *)
(* Offer-Discount Evaluator (apply_offer_discount), the similarity helpers *)
(* (_tokens, _jaccard), the Matcher loop (compare_search) and the retry    *)
(* loop of the Fetcher (http_request).                                     *)
(*                                                                         *)
(* Conventions.                                                            *)
(*  - A Python str is a sequence of one-character strings.                 *)
(*  - A Python float holding money or a parsed number is an integer count  *)
(*    of hundredths (443.00 is 44300, the percentage 20 is 2000).  Inputs  *)
(*    carry at most two fractional digits, so the conversion is exact.     *)
(*  - An optional number is <<>> (None) or <<n>>.                          *)
(***************************************************************************)
EXTENDS Integers, Sequences, FiniteSets, TLC

\* compare_search
VARIABLES
    pms,          \* pm.to_dict("records"): the candidates
    idx,          \* the loop index, from 1
    pc,           \* the position in compare_search
    soup,         \* the local soup: unbound, or the last parsed search page
    cur,          \* title, price, was, link, product_id of the first result
    pre,          \* price and was before the offer was applied, the offer text
    matches,      \* the list matches
    compare_out,  \* the returned table
    exc,          \* the exception that left compare_search, "" if none
    delay,        \* the sleeps executed since the last search request
    posted,       \* special-offers requests issued for the current candidate
    audit         \* per emitted record: its candidate and the origin of its soup

mvars == <<pms, idx, pc, soup, cur, pre, matches, compare_out, exc, delay,
           posted, audit>>

\* scrape_iconic
VARIABLES
    catalog,      \* the site: its pages of product anchors
    threshold,    \* the parameter threshold (minDiscount), in hundredths
    page,         \* the local page
    rows,         \* the list rows
    s_pc,         \* the position in scrape_iconic
    requested,    \* the URLs http_request was called with, in order
    seen,         \* per request, the number of anchors its page yielded
    df            \* the returned table

svars == <<catalog, threshold, page, rows, s_pc, requested, seen, df>>

\* http_request
VARIABLES
    h_url,        \* the parameter url
    h_retries,    \* the parameter retries
    h_pc,         \* the position in http_request
    h_iter,       \* completed iterations of the for loop
    h_log,        \* the calls of _attempt so far: verify flag and outcome
    h_sleeps,     \* calls of time.sleep(sleep)
    h_out         \* what the call ended with: a return value or an error

hvars == <<h_url, h_retries, h_pc, h_iter, h_log, h_sleeps, h_out>>

\* apply_offer_discount, called on its own
VARIABLES
    o_args,       \* price_plain, price_now, offer_text
    o_pc,         \* "call" before the call, then "returned" or "raised"
    o_ret         \* the returned price_offer

ovars == <<o_args, o_pc, o_ret>>

vars == <<mvars, svars, hvars, ovars>>

\* ------------------------------------------------------------------------
\* Characters and strings
\* ------------------------------------------------------------------------

Digits == {"0", "1", "2", "3", "4", "5", "6", "7", "8", "9"}

DigitVal(c) ==
    CASE c = "0" -> 0 [] c = "1" -> 1 [] c = "2" -> 2 [] c = "3" -> 3
      [] c = "4" -> 4 [] c = "5" -> 5 [] c = "6" -> 6 [] c = "7" -> 7
      [] c = "8" -> 8 [] c = "9" -> 9

UpperSeq == <<"A", "B", "C", "D", "E", "F", "G", "H", "I", "J", "K", "L", "M",
              "N", "O", "P", "Q", "R", "S", "T", "U", "V", "W", "X", "Y", "Z">>

LowerSeq == <<"a", "b", "c", "d", "e", "f", "g", "h", "i", "j", "k", "l", "m",
              "n", "o", "p", "q", "r", "s", "t", "u", "v", "w", "x", "y", "z">>

Uppers == {UpperSeq[i] : i \in 1..26}

Lowers == {LowerSeq[i] : i \in 1..26}

\* the lower-case letter of each upper-case letter
LowerMap == [c \in Uppers |-> LowerSeq[CHOOSE i \in 1..26 : UpperSeq[i] = c]]

\* str.lower() on one character
LowerChar(c) == IF c \in Uppers THEN LowerMap[c] ELSE c

\* F applied to the value of v, computed once: an assignment to a local
Let(v, F(_)) == CHOOSE r \in {F(x) : x \in {v}} : TRUE

\* str.lower()
Lower(s) == [i \in 1..Len(s) |-> LowerChar(s[i])]

\* the regex class \s restricted to the characters of the inputs
IsSpace(c) == c = " "

\* the regex class \w
IsWord(c) == c \in Digits \/ c \in Uppers \/ c \in Lowers \/ c = "_"

IsDigitAt(s, p) == p >= 1 /\ p <= Len(s) /\ s[p] \in Digits

\* s[p:].startswith(w), p counted from 1
HasAt(s, p, w) ==
    /\ p >= 1
    /\ p + Len(w) - 1 <= Len(s)
    /\ \A i \in 1..Len(w) : s[p + i - 1] = w[i]

\* str.startswith
StartsWith(s, w) == HasAt(s, 1, w)

\* s.lower()[p:].startswith(w), w in lower case
HasAtLower(s, p, w) ==
    /\ p >= 1
    /\ p + Len(w) - 1 <= Len(s)
    /\ \A i \in 1..Len(w) : LowerChar(s[p + i - 1]) = w[i]

\* w in s.lower()
ContainsLower(s, w) == \E p \in 1..(Len(s) + 1) : HasAtLower(s, p, w)

\* the "in" operator on strings
Contains(s, w) == \E p \in 1..(Len(s) + 1) : HasAt(s, p, w)

SetMin(S) == CHOOSE x \in S : \A y \in S : x <= y

SetMax(S) == CHOOSE x \in S : \A y \in S : x >= y

Min2(a, b) == IF a <= b THEN a ELSE b

Max2(a, b) == IF a >= b THEN a ELSE b

RECURSIVE DigitRun(_, _)
\* length of the maximal run of digits of s starting at p (a greedy \d*)
DigitRun(s, p) == IF IsDigitAt(s, p) THEN 1 + DigitRun(s, p + 1) ELSE 0

RECURSIVE SpaceRun(_, _)
\* length of the maximal run of white space of s starting at p (a greedy \s*)
SpaceRun(s, p) ==
    IF p <= Len(s) /\ IsSpace(s[p]) THEN 1 + SpaceRun(s, p + 1) ELSE 0

RECURSIVE DigitsValue(_, _, _)
\* the integer written by the digits among s[p..q-1], commas skipped
\* (the .replace(",", "") before float())
DigitsValue(s, p, q) ==
    IF q <= p THEN 0
    ELSE IF s[q - 1] \in Digits
         THEN DigitsValue(s, p, q - 1) * 10 + DigitVal(s[q - 1])
         ELSE DigitsValue(s, p, q - 1)

\* the hundredths written by a fraction whose digits start at p (n digits)
FracValue(s, p, n) ==
    IF n = 0 THEN 0
    ELSE IF n = 1 THEN DigitVal(s[p]) * 10
    ELSE DigitVal(s[p]) * 10 + DigitVal(s[p + 1])

None == <<>>

Some(x) == <<x>>

\* Python truthiness of an optional float: neither None nor 0.0
Truthy(o) == o # None /\ o[1] # 0

\* ------------------------------------------------------------------------
\* get_num
\* ------------------------------------------------------------------------

RECURSIVE GroupEnd(_, _)
\* the greedy (?:,\d{3})* : the first position after the comma groups at q
GroupEnd(s, q) ==
    IF /\ q <= Len(s)
       /\ s[q] = ","
       /\ IsDigitAt(s, q + 1) /\ IsDigitAt(s, q + 2) /\ IsDigitAt(s, q + 3)
    THEN GroupEnd(s, q + 4)
    ELSE q

\* re.compile(r"-?\d{1,3}(?:,\d{3})*(?:\.\d+)?|-?\d+(?:\.\d+)?").search(text):
\* the leftmost position where a number starts; there the first alternative
\* always matches (it needs one digit only), so the second is never taken.
NumStarts(text) ==
    {p \in 1..Len(text) : \/ text[p] \in Digits
                          \/ text[p] = "-" /\ IsDigitAt(text, p + 1)}

\* the number matched at p, the text from its first digit d0 to q2 - 1 being
\* the integer part with its comma groups
NumAt(text, p, d0, q2) ==
    LET fn  == IF q2 <= Len(text) /\ text[q2] = "."
               THEN DigitRun(text, q2 + 1) ELSE 0
        mag == DigitsValue(text, d0, q2) * 100 + FracValue(text, q2 + 1, fn)
    IN  IF text[p] = "-" THEN 0 - mag ELSE mag

get_num(text) ==
    Let(NumStarts(text), LAMBDA starts :
      IF starts = {} THEN None
      ELSE Let(SetMin(starts), LAMBDA p :
           Let(IF text[p] = "-" THEN p + 1 ELSE p, LAMBDA d0 :
           Let(GroupEnd(text, d0 + Min2(3, DigitRun(text, d0))), LAMBDA q2 :
             Some(NumAt(text, p, d0, q2))))))

\* ------------------------------------------------------------------------
\* apply_offer_discount
\* ------------------------------------------------------------------------

\* round(n / d, 2) on hundredths: the quotient rounded to the nearest integer,
\* ties to even (d > 0)
RoundDiv(n, d) ==
    LET q == n \div d
        r == n % d
    IN  IF 2 * r < d THEN q
        ELSE IF 2 * r > d THEN q + 1
        ELSE IF q % 2 = 0 THEN q ELSE q + 1

\* round(p * (1 - discount / 100), 2), p and discount in hundredths
PercentOff(p, discount) == RoundDiv(p * (10000 - discount), 10000)

\* \b after a digit: the end of the text or a non-word character
Bnd(s, q) == q > Len(s) \/ ~IsWord(s[q])

\* \s*\$?\s* from q: the position of the amount
AmountStart(s, q) ==
    Let(q + SpaceRun(s, q), LAMBDA a1 :
    Let(IF a1 <= Len(s) /\ s[a1] = "$" THEN a1 + 1 ELSE a1, LAMBDA a2 :
      a2 + SpaceRun(s, a2)))

\* (?:\.[0-9]{1,2})?\b after the amount's digits, which end before e0: the
\* number of fraction digits taken, two if a boundary follows them, else one
\* if a boundary follows it, else none
BuyFrac(s, e0) ==
    Let(IF e0 <= Len(s) /\ s[e0] = "." THEN DigitRun(s, e0 + 1) ELSE 0, LAMBDA fr :
      IF fr >= 2 /\ Bnd(s, e0 + 3) THEN 2
      ELSE IF fr >= 1 /\ Bnd(s, e0 + 2) THEN 1
      ELSE 0)

\* One attempt of r'\bBUY\s+(\d+)\s+FOR\s*\$?\s*([0-9]+(?:\.[0-9]{1,2})?)\b'
\* at position p: <<>> when it fails there, else <<qty, total>>.
BuyMatchAt(s, p) ==
    IF ~(HasAt(s, p, <<"B", "U", "Y">>) /\ (p = 1 \/ ~IsWord(s[p - 1])))
    THEN <<>>
    ELSE
    Let(p + 3 + SpaceRun(s, p + 3), LAMBDA d1 :
      IF d1 = p + 3 THEN <<>> ELSE
    Let(d1 + DigitRun(s, d1), LAMBDA s2 :
      IF s2 = d1 THEN <<>> ELSE
    Let(s2 + SpaceRun(s, s2), LAMBDA f1 :
      IF f1 = s2 \/ ~HasAt(s, f1, <<"F", "O", "R">>) THEN <<>> ELSE
    Let(AmountStart(s, f1 + 3), LAMBDA t1 :
    Let(t1 + DigitRun(s, t1), LAMBDA e0 :
      IF e0 = t1 THEN <<>> ELSE
    Let(BuyFrac(s, e0), LAMBDA fn :
      IF fn = 0 /\ ~Bnd(s, e0) THEN <<>>
      ELSE <<DigitsValue(s, d1, s2),
             DigitsValue(s, t1, e0) * 100 + FracValue(s, e0 + 1, fn)>>))))))

RECURSIVE BuyMatchFrom(_, _)
BuyMatchFrom(s, p) ==
    IF p > Len(s) THEN <<>>
    ELSE Let(BuyMatchAt(s, p), LAMBDA m :
           IF m # <<>> THEN m ELSE BuyMatchFrom(s, p + 1))

\* re.search of the BUY pattern: the leftmost position where it matches
BuyMatch(s) == BuyMatchFrom(s, 1)

GiftTier1 == 60000

GiftTier2 == 30000

GiftTier3 == 15000

\* lines 279-303, discount being the number found in the offer text.
\* The result is [raised, value]: raised is the TypeError of comparing None
\* with a number in the gift-card branch; value is the returned price_offer.
OfferBranches(price_plain, price_now, offer_text, discount) ==
    LET Ret(v) == [raised |-> FALSE, value |-> v]
    IN  IF StartsWith(offer_text, <<"E", "X", "T", "R", "A">>)
             /\ Contains(offer_text, <<"%">>)
        THEN IF Truthy(price_now)
             THEN Ret(Some(PercentOff(price_now[1], discount)))
             ELSE IF Truthy(price_plain)
             THEN Ret(Some(PercentOff(price_plain[1], discount)))
             ELSE Ret(None)
        ELSE IF StartsWith(offer_text, <<"S", "A", "V", "E">>)
                 /\ Contains(offer_text, <<"%">>)
        THEN IF Truthy(price_plain)
             THEN Ret(Some(PercentOff(price_plain[1], discount)))
             ELSE Ret(None)
        ELSE IF StartsWith(offer_text, <<"S", "A", "V", "E">>)
                 /\ Contains(offer_text, <<"$">>)
        THEN IF Truthy(price_plain)
             THEN Ret(Some(price_plain[1] - discount))
             ELSE Ret(None)
        ELSE IF StartsWith(offer_text, <<"B", "U", "Y">>)
        THEN Let(BuyMatch(offer_text), LAMBDA m_buy :
               IF m_buy # <<>> /\ m_buy[1] > 0
               THEN Ret(Some(RoundDiv(m_buy[2], m_buy[1])))
               ELSE Ret(None))
        ELSE IF Contains(offer_text, <<"G", "I", "F", "T", " ", "C", "A", "R", "D">>)
        THEN IF price_plain = None
             THEN [raised |-> TRUE, value |-> None]
             ELSE IF price_plain[1] >= GiftTier1
             THEN Ret(Some(price_plain[1] - 15000))
             ELSE IF price_plain[1] >= GiftTier2
             THEN Ret(Some(price_plain[1] - 5000))
             ELSE IF price_plain[1] >= GiftTier3
             THEN Ret(Some(price_plain[1] - 2000))
             ELSE Ret(None)
        ELSE Ret(None)

\* lines 270-275: an empty text, or a text without a number or with the
\* number 0, returns None before any branch is looked at
apply_offer_discount(price_plain, price_now, offer_text) ==
    IF offer_text = <<>> THEN [raised |-> FALSE, value |-> None]
    ELSE Let(get_num(offer_text), LAMBDA discount :
           IF ~Truthy(discount) THEN [raised |-> FALSE, value |-> None]
           ELSE OfferBranches(price_plain, price_now, offer_text, discount[1]))

\* ------------------------------------------------------------------------
\* _tokens, _jaccard
\* ------------------------------------------------------------------------

IsTokChar(c) == c \in Lowers \/ c \in Digits

\* set(re.compile(r"[a-z0-9]+").findall(title.lower())): the maximal runs
_tokens(title) ==
    Let(Lower(title), LAMBDA l :
      {SubSeq(l, ij[1], ij[2]) : ij \in
          {ij \in (1..Len(l)) \X (1..Len(l)) :
              /\ ij[1] <= ij[2]
              /\ \A k \in ij[1]..ij[2] : IsTokChar(l[k])
              /\ (ij[1] = 1 \/ ~IsTokChar(l[ij[1] - 1]))
              /\ (ij[2] = Len(l) \/ ~IsTokChar(l[ij[2] + 1]))}})

\* inter / union as the pair <<numerator, denominator>>; 0.0 is <<0, 1>>
_jaccard(a, b) ==
    IF a = {} \/ b = {} THEN <<0, 1>>
    ELSE <<Cardinality(a \cap b), Cardinality(a \cup b)>>

SimThreshNum == 9

SimThreshDen == 10

\* a threshold of 0.5 in place of 0.9
MeetsThresh_Half(j) == j[1] * 2 >= j[2]

\* _jaccard(...) >= sim_thresh with the default sim_thresh = 0.9
MeetsThresh(j) == j[1] * SimThreshDen >= SimThreshNum * j[2]

\* ------------------------------------------------------------------------
\* get_product_info
\* ------------------------------------------------------------------------

RECURSIVE LeadSpaces(_, _)
LeadSpaces(s, p) ==
    IF p <= Len(s) /\ IsSpace(s[p]) THEN 1 + LeadSpaces(s, p + 1) ELSE 0

RECURSIVE TrailSpaces(_, _)
TrailSpaces(s, p) ==
    IF p >= 1 /\ IsSpace(s[p]) THEN 1 + TrailSpaces(s, p - 1) ELSE 0

\* str.strip()
Strip(s) ==
    LET a == LeadSpaces(s, 1)
    IN  IF a = Len(s) THEN <<>>
        ELSE SubSeq(s, a + 1, Len(s) - TrailSpaces(s, Len(s)))

DJ_BASE == <<"h", "t", "t", "p", "s", ":", "/", "/", "w", "w", "w", ".",
             "d", "a", "v", "i", "d", "j", "o", "n", "e", "s", ".", "c", "o", "m">>

\* urljoin("https://www.davidjones.com", link) for an absolute URL of the
\* site, an absolute path, or a path relative to the root
UrlJoin(link) ==
    IF StartsWith(link, DJ_BASE) THEN link
    ELSE IF StartsWith(link, <<"/">>) THEN DJ_BASE \o link
    ELSE IF link = <<>> THEN DJ_BASE
    ELSE DJ_BASE \o <<"/">> \o link

RECURSIVE IdMatchFrom(_, _)
IdMatchFrom(link, p) ==
    IF p > Len(link) THEN None
    ELSE IF link[p] # "-" THEN IdMatchFrom(link, p + 1)
    ELSE Let(DigitRun(link, p + 1), LAMBDA n :
           IF n >= 1 /\ (p + 1 + n > Len(link) \/ link[p + 1 + n] = "?")
           THEN Some(SubSeq(link, p + 1, p + n))
           ELSE IdMatchFrom(link, p + 1))

\* re.search(r'-(\d+)(?:\?|$)', link): None, or <<group 1>>, for the leftmost
\* "-" whose digits run up to a "?" or to the end of the link
IdMatch(link) == IdMatchFrom(link, 1)

RECURSIVE NumCommaRun(_, _)
\* the greedy [0-9,]* at p
NumCommaRun(s, p) ==
    IF p <= Len(s) /\ (s[p] \in Digits \/ s[p] = ",")
    THEN 1 + NumCommaRun(s, p + 1) ELSE 0

\* label\s+\$[0-9,]+ at p: 0 when it does not match there, else the position
\* of the group ([0-9,]+\.?\d*)
LabelAt(text, label, p) ==
    IF ~HasAtLower(text, p, label) THEN 0
    ELSE Let(SpaceRun(text, p + Len(label)), LAMBDA n :
         Let(p + Len(label) + n, LAMBDA d :
           IF n >= 1 /\ d <= Len(text) /\ text[d] = "$"
                     /\ NumCommaRun(text, d + 1) >= 1
           THEN d + 1 ELSE 0))

RECURSIVE LabelFrom(_, _, _)
LabelFrom(text, label, p) ==
    IF p > Len(text) THEN 0
    ELSE Let(LabelAt(text, label, p), LAMBDA g :
           IF g # 0 THEN g ELSE LabelFrom(text, label, p + 1))

\* float(group(1).replace(',', '')) for the group that starts at g
GroupFloat(text, g) ==
    Let(g + NumCommaRun(text, g), LAMBDA e :
    Let(IF e <= Len(text) /\ text[e] = "." THEN DigitRun(text, e + 1) ELSE 0,
        LAMBDA fn :
      [found |-> TRUE,
       bad   |-> Cardinality({k \in g..(e - 1) : text[k] \in Digits}) + fn = 0,
       value |-> DigitsValue(text, g, e) * 100 + FracValue(text, e + 1, fn)]))

\* re.search(label + r'\s+\$([0-9,]+\.?\d*)', text, re.IGNORECASE) followed by
\* float(group(1).replace(',', '')).  label is given in lower case.
\* found: the pattern matched; bad: float() raised ValueError (no digit in
\* the group); value: the number in hundredths.
LabelPrice(text, label) ==
    Let(LabelFrom(text, label, 1), LAMBDA g :
      IF g = 0 THEN [found |-> FALSE, bad |-> FALSE, value |-> 0]
      ELSE GroupFloat(text, g))

NoInfo == [title |-> <<>>, price |-> None, was |-> None, link |-> <<>>,
           product_id |-> None]

\* lines 236-263: the prices read from the accessibility text.
\* The result is [bad, price, was]: bad is the ValueError of float().
PricesOf(item) ==
    IF ~item.hasA11y THEN [bad |-> FALSE, price |-> None, was |-> None]
    ELSE
    Let(IF ContainsLower(item.text, <<"i", "t", " ", "w", "a", "s">>)
        THEN <<LabelPrice(item.text, <<"n", "o", "w">>),
               LabelPrice(item.text, <<"w", "a", "s">>)>>
        ELSE <<[found |-> FALSE, bad |-> FALSE, value |-> 0],
               LabelPrice(item.text, <<"p", "r", "i", "c", "e">>)>>,
        LAMBDA m :
      \* m[1] is price_now's match, m[2] price_plain's
      Let({m[k].value : k \in {k \in 1..2 : m[k].found}}, LAMBDA candidates :
        [bad   |-> (m[1].found /\ m[1].bad) \/ (m[2].found /\ m[2].bad),
         price |-> IF candidates # {} THEN Some(SetMin(candidates)) ELSE None,
         was   |-> IF candidates # {} THEN Some(SetMax(candidates)) ELSE None]))

\* A search-result node: brand and name are the stripped texts of the two
\* elements ("" when the element is missing), hasWidget/url the yotpo widget
\* and its data-yotpo-url, hasPriceRoot the price root, hasA11y/text the
\* accessibility span and its text.
\* The result is [exc, info]: exc names the exception that leaves the
\* function and the source line that raises it ("" when the function
\* returns), info is the returned tuple.
get_product_info(item) ==
    IF ~item.hasWidget THEN [exc |-> "TypeError@227", info |-> NoInfo]
    ELSE
    Let(UrlJoin(item.url), LAMBDA link :
    Let(IdMatch(link), LAMBDA id_match :
      IF id_match = None
      THEN [exc |-> "AttributeError@233", info |-> NoInfo]
      ELSE IF ~item.hasPriceRoot
      THEN [exc |-> "AttributeError@242", info |-> NoInfo]
      ELSE Let(PricesOf(item), LAMBDA pr :
             IF pr.bad THEN [exc |-> "ValueError@251", info |-> NoInfo]
             ELSE [exc  |-> "",
                   info |-> [title |-> Strip(item.brand \o <<" ">> \o item.name),
                             price |-> pr.price, was |-> pr.was,
                             link |-> link, product_id |-> id_match[1]]])))

\* ------------------------------------------------------------------------
\* compare_search: helpers
\* ------------------------------------------------------------------------

\* lines 359-363: the shortDescription of the first offer whose id is
\* product_id, "" when there is none
RECURSIVE FindOffer(_, _)
FindOffer(offers_data, product_id) ==
    IF offers_data = <<>> THEN <<>>
    ELSE IF Head(offers_data).id = product_id
         THEN Head(offers_data).shortDescription
         ELSE FindOffer(Tail(offers_data), product_id)

\* "was or price"
WasOrPrice(price, was) == IF Truthy(was) THEN was ELSE price

\* line 367: the price the evaluator returns for the offer text
OfferPrice(price, was, offer_text) ==
    apply_offer_discount(WasOrPrice(price, was), price, offer_text)

\* the offer price taken as the new price without the min and max of line
\* 370-371
Reconcile_TakeOffer(price, was, offer_text) ==
    IF offer_text = <<>> THEN [price |-> price, was |-> was]
    ELSE
    Let(OfferPrice(price, was, offer_text), LAMBDA r :
      IF ~r.raised /\ Truthy(r.value)
      THEN [price |-> r.value, was |-> WasOrPrice(price, was)]
      ELSE [price |-> price, was |-> was])

\* lines 365-371: price and was after the offer has been applied.  An
\* exception of the evaluator is caught at line 372, before any assignment.
Reconcile(price, was, offer_text) ==
    IF offer_text = <<>> THEN [price |-> price, was |-> was]
    ELSE
    Let(OfferPrice(price, was, offer_text), LAMBDA r :
      IF ~r.raised /\ Truthy(r.value)
      THEN Let({o[1] : o \in {WasOrPrice(price, was), price, r.value} \ {None}},
               LAMBDA candidates :
             [price |-> Some(SetMin(candidates)),
              was   |-> Some(SetMax(candidates))])
      ELSE [price |-> price, was |-> was])

PriceDiffGate == 10000

\* line 375
GateOpen(info, cand) ==
    /\ info.was = Some(cand.was)
    /\ Let(_tokens(info.title), LAMBDA a :
       Let(_tokens(cand.title), LAMBDA b : MeetsThresh(_jaccard(a, b))))

\* line 381
Emits(info, cand) == GateOpen(info, cand) /\ info.price[1] - cand.price > PriceDiffGate

\* lines 382-390
MatchRecord(info, cand) ==
    [title_dj   |-> info.title,
     title_pm   |-> cand.title,
     price_diff |-> info.price[1] - cand.price,
     price_dj   |-> info.price[1],
     price_pm   |-> cand.price,
     link_dj    |-> info.link,
     link_pm    |-> cand.link]

RECURSIVE InsertDesc(_, _)
InsertDesc(sorted, r) ==
    IF sorted = <<>> THEN <<r>>
    ELSE IF Head(sorted).price_diff >= r.price_diff
         THEN <<Head(sorted)>> \o InsertDesc(Tail(sorted), r)
         ELSE <<r>> \o sorted

RECURSIVE SortDesc(_)
\* sort_values("price_diff", ascending=False), ties kept in their order
SortDesc(recs) ==
    IF recs = <<>> THEN <<>>
    ELSE Let(SortDesc(SubSeq(recs, 1, Len(recs) - 1)),
             LAMBDA sorted : InsertDesc(sorted, recs[Len(recs)]))

\* ------------------------------------------------------------------------
\* compare_search: inputs
\* ------------------------------------------------------------------------

MaxCands == 3

T_RedDress == <<"R", "e", "d", " ", "D", "r", "e", "s", "s">>

T_red_dress == <<"r", "e", "d", "-", "d", "r", "e", "s", "s">>

\* Candidates as scrape_iconic returns them: diff = was - price
CandA == [title |-> T_RedDress, price |-> 10000, was |-> 44300,
          diff |-> 34300, link |-> <<"/", "a">>]

CandB == [title |-> T_red_dress, price |-> 5000, was |-> 44300,
          diff |-> 39300, link |-> <<"/", "b">>]

CandC == [title |-> T_RedDress, price |-> 15000, was |-> 44300,
          diff |-> 29300, link |-> <<"/", "c">>]

Cands == {CandA, CandB, CandC}

RECURSIVE SeqsUpTo(_, _)
SeqsUpTo(S, n) ==
    IF n = 0 THEN {<<>>}
    ELSE LET shorter == SeqsUpTo(S, n - 1)
         IN  shorter \cup {Append(q, x) : q \in shorter, x \in S}

\* scrape_iconic returns its rows sorted by diff, descending
SortedByDiff(q) == \A i \in 1..(Len(q) - 1) : q[i].diff >= q[i + 1].diff

CandSeqs == {q \in SeqsUpTo(Cands, MaxCands) : SortedByDiff(q)}

TX_Sale == <<"P", "r", "i", "c", "e", " ", "i", "s", " ", "n", "o", "w", " ",
             "$", "2", "2", "0", ".", "0", "0", ",", " ",
             "i", "t", " ", "w", "a", "s", " ", "$", "4", "4", "3", ".", "0", "0">>

TX_Plain == <<"P", "r", "i", "c", "e", " ", "$", "4", "4", "3", ".", "0", "0">>

U_WithId == <<"/", "p", "/", "r", "e", "d", "-", "d", "r", "e", "s", "s", "-",
              "1", "2", "3">>

U_WithQuery == <<"/", "p", "/", "r", "e", "d", "-", "7", "?", "c", "=", "1">>

U_NoId == <<"/", "p", "/", "r", "e", "d", "-", "d", "r", "e", "s", "s">>

\* "Red" "Dress", now $220.00 was $443.00, product id 123
ItemSale == [brand |-> <<"R", "e", "d">>, name |-> <<"D", "r", "e", "s", "s">>,
             hasWidget |-> TRUE, url |-> U_WithId, hasPriceRoot |-> TRUE,
             hasA11y |-> TRUE, text |-> TX_Sale]

\* "Red" alone (half of the candidate's tokens), $443.00, product id 7
ItemHalf == [brand |-> <<>>, name |-> <<"R", "e", "d">>,
             hasWidget |-> TRUE, url |-> U_WithQuery, hasPriceRoot |-> TRUE,
             hasA11y |-> TRUE, text |-> TX_Plain]

\* a link without a trailing numeric segment
ItemNoId == [ItemSale EXCEPT !.url = U_NoId]

\* no yotpo widget
ItemNoWidget == [ItemSale EXCEPT !.hasWidget = FALSE]

\* no accessibility span: no price at all
ItemNoPrice == [ItemSale EXCEPT !.hasA11y = FALSE, !.text = <<>>]

\* soup.select("ul#products-grid > li") of the pages the search may return
Soups == {<<>>, <<ItemSale, ItemHalf>>, <<ItemHalf>>, <<ItemNoId>>,
          <<ItemNoWidget>>, <<ItemNoPrice>>}

O_Extra20 == <<"E", "X", "T", "R", "A", " ", "2", "0", "%", " ", "O", "F", "F">>

O_Extra100 == <<"E", "X", "T", "R", "A", " ", "1", "0", "0", "%", " ", "O", "F", "F">>

O_Save20 == <<"S", "A", "V", "E", " ", "$", "2", "0">>

O_Save10pc == <<"S", "A", "V", "E", " ", "1", "0", "%">>

O_Buy2For100 == <<"B", "U", "Y", " ", "2", " ", "F", "O", "R", " ", "$", "1", "0", "0">>

O_Buy1For500 == <<"B", "U", "Y", " ", "1", " ", "F", "O", "R", " ", "$", "5", "0", "0">>

O_GiftCardOffer == <<"G", "I", "F", "T", " ", "C", "A", "R", "D", " ",
                     "O", "F", "F", "E", "R">>

O_50GiftCard == <<"$", "5", "0", " ", "G", "I", "F", "T", " ", "C", "A", "R", "D">>

\* the shortDescription values the special-offers route may answer with
MatcherOfferTexts == {<<>>, O_Extra20, O_Extra100, O_Save20, O_Buy2For100,
                      O_Buy1For500, O_50GiftCard}

OtherId == <<"9", "9", "9">>

\* the arrays the special-offers route may answer with for {"ids": [pid]}
OffersFor(pid) ==
    {<<>>, <<[id |-> OtherId, shortDescription |-> O_Extra20]>>}
      \cup {<<[id |-> OtherId, shortDescription |-> O_Buy2For100],
              [id |-> pid, shortDescription |-> t]>> : t \in MatcherOfferTexts}

\* http_request(url, retries=2, sleep=8): the defaults compare_search uses
Retries == 2

\* range(max(1, retries))
MaxAttempts == Max2(1, Retries)

\* ------------------------------------------------------------------------
\* compare_search: the loop
\* ------------------------------------------------------------------------

Unbound == [bound |-> FALSE, items |-> <<>>, of |-> 0]

NoPre == [price |-> None, was |-> None, offer_text |-> <<>>, fetched |-> FALSE]

NoDelay == [matcher |-> FALSE, retry |-> 0]

\* time.sleep(1) left out
OkDelay_NoSleep(k) == [matcher |-> FALSE, retry |-> k]

\* lines 339-340: http_request returned after k failed attempts (it slept
\* after each), then time.sleep(1) ran
OkDelay(k) == [matcher |-> TRUE, retry |-> k]

\* lines 342-345: http_request slept after each of its failed attempts and
\* raised; the handler does not sleep
FailDelay == [matcher |-> FALSE, retry |-> MaxAttempts]

\* the for statement, line 331: the next candidate, or the end of the loop
LoopPc(i, q) == IF i > Len(q) THEN "sort" ELSE "search"

MInit ==
    /\ pms \in CandSeqs
    /\ idx = 1
    /\ pc = LoopPc(1, pms)
    /\ soup = Unbound
    /\ cur = NoInfo
    /\ pre = NoPre
    /\ matches = <<>>
    /\ compare_out = <<>>
    /\ exc = ""
    /\ delay = NoDelay
    /\ posted = 0
    /\ audit = <<>>

\* lines 339-341: the search request succeeds (after k failed attempts, each
\* followed by http_request's own sleep), then time.sleep(1)
SearchOk ==
    /\ pc = "search"
    /\ \E resp \in Soups, k \in 0..(MaxAttempts - 1) :
          /\ soup' = [bound |-> TRUE, items |-> resp, of |-> idx]
          /\ delay' = OkDelay(k)
    /\ pc' = "select"
    /\ posted' = 0
    /\ cur' = NoInfo
    /\ pre' = NoPre
    /\ UNCHANGED <<pms, idx, matches, compare_out, exc, audit>>
    /\ UNCHANGED <<svars, hvars, ovars>>

\* lines 342-345: http_request raised after its last attempt; the handler
\* prints and leaves the while loop, soup is not assigned
SearchFail ==
    /\ pc = "search"
    /\ delay' = FailDelay
    /\ pc' = "select"
    /\ posted' = 0
    /\ cur' = NoInfo
    /\ pre' = NoPre
    /\ UNCHANGED <<pms, idx, soup, matches, compare_out, exc, audit>>
    /\ UNCHANGED <<svars, hvars, ovars>>

\* line 348 with soup never assigned
RaiseUnbound ==
    /\ pc = "select"
    /\ ~soup.bound
    /\ pc' = "raised"
    /\ exc' = "UnboundLocalError@348"
    /\ UNCHANGED <<pms, idx, soup, cur, pre, matches, compare_out, delay,
                   posted, audit>>
    /\ UNCHANGED <<svars, hvars, ovars>>

\* lines 349-350: no result, continue
NoItems ==
    /\ pc = "select"
    /\ soup.bound
    /\ soup.items = <<>>
    /\ idx' = idx + 1
    /\ pc' = LoopPc(idx + 1, pms)
    /\ UNCHANGED <<pms, soup, cur, pre, matches, compare_out, exc, delay,
                   posted, audit>>
    /\ UNCHANGED <<svars, hvars, ovars>>

\* lines 352-353, get_product_info raises: nothing catches it
GetInfoRaise ==
    /\ pc = "select"
    /\ soup.bound
    /\ soup.items # <<>>
    /\ \E r \in {get_product_info(soup.items[1])} :
          /\ r.exc # ""
          /\ exc' = r.exc
    /\ pc' = "raised"
    /\ UNCHANGED <<pms, idx, soup, cur, pre, matches, compare_out, delay,
                   posted, audit>>
    /\ UNCHANGED <<svars, hvars, ovars>>

\* lines 352-353, get_product_info returns
GetInfoOk ==
    /\ pc = "select"
    /\ soup.bound
    /\ soup.items # <<>>
    /\ \E r \in {get_product_info(soup.items[1])} :
          /\ r.exc = ""
          /\ cur' = r.info
    /\ pc' = "offers"
    /\ UNCHANGED <<pms, idx, soup, pre, matches, compare_out, exc, delay,
                   posted, audit>>
    /\ UNCHANGED <<svars, hvars, ovars>>

\* lines 355-357 and 372-373: the special-offers request raises
OffersFail ==
    /\ pc = "offers"
    /\ posted' = posted + 1
    /\ pre' = [price |-> cur.price, was |-> cur.was, offer_text |-> <<>>,
               fetched |-> FALSE]
    /\ pc' = "gate"
    /\ UNCHANGED <<pms, idx, soup, cur, matches, compare_out, exc, delay, audit>>
    /\ UNCHANGED <<svars, hvars, ovars>>

\* lines 355-371: the special-offers request answers, the offer is applied
OffersOk ==
    /\ pc = "offers"
    /\ \E offers_data \in OffersFor(cur.product_id) :
          \E offer_text \in {FindOffer(offers_data, cur.product_id)} :
          \E r \in {Reconcile(cur.price, cur.was, offer_text)} :
              /\ cur' = [cur EXCEPT !.price = r.price, !.was = r.was]
              /\ pre' = [price |-> cur.price, was |-> cur.was,
                         offer_text |-> offer_text, fetched |-> TRUE]
    /\ posted' = posted + 1
    /\ pc' = "gate"
    /\ UNCHANGED <<pms, idx, soup, matches, compare_out, exc, delay, audit>>
    /\ UNCHANGED <<svars, hvars, ovars>>

\* lines 375-390: the gate is open and price_diff > 100
GateEmit ==
    /\ pc = "gate"
    /\ Emits(cur, pms[idx])
    /\ matches' = Append(matches, MatchRecord(cur, pms[idx]))
    /\ audit' = Append(audit, [cand |-> idx, of |-> soup.of,
                               was_dj |-> cur.was, was_pm |-> pms[idx].was])
    /\ idx' = idx + 1
    /\ pc' = LoopPc(idx + 1, pms)
    /\ UNCHANGED <<pms, soup, cur, pre, compare_out, exc, delay, posted>>
    /\ UNCHANGED <<svars, hvars, ovars>>

\* lines 375-381: the gate is closed, or price_diff <= 100
GateSkip ==
    /\ pc = "gate"
    /\ ~Emits(cur, pms[idx])
    /\ idx' = idx + 1
    /\ pc' = LoopPc(idx + 1, pms)
    /\ UNCHANGED <<pms, soup, cur, pre, matches, compare_out, exc, delay,
                   posted, audit>>
    /\ UNCHANGED <<svars, hvars, ovars>>

\* lines 398-403
Finish ==
    /\ pc = "sort"
    /\ compare_out' = SortDesc(matches)
    /\ pc' = "done"
    /\ UNCHANGED <<pms, idx, soup, cur, pre, matches, exc, delay, posted, audit>>
    /\ UNCHANGED <<svars, hvars, ovars>>

MNext ==
    \/ SearchOk \/ SearchFail \/ RaiseUnbound \/ NoItems
    \/ GetInfoRaise \/ GetInfoOk \/ OffersFail \/ OffersOk
    \/ GateEmit \/ GateSkip \/ Finish

\* ------------------------------------------------------------------------
\* scrape_iconic
\* ------------------------------------------------------------------------

MaxPages == 3

\* the cap on page for a catalog that never shows an empty page
MaxFetch == MaxPages + 2

ICONIC_BASE == <<"h", "t", "t", "p", "s", ":", "/", "/", "w", "w", "w", ".",
                 "t", "h", "e", "i", "c", "o", "n", "i", "c", ".",
                 "c", "o", "m", ".", "a", "u">>

\* _turn_page(start_url, page): the query added to start_url, none for page 1
_turn_page(n) == IF n <= 1 THEN <<>> ELSE <<"page", n>>

\* the page a URL of the listing asks the site for
PageOfUrl(q) == IF q = <<>> THEN 1 ELSE q[2]

\* the product anchors of page n: past its last page an endless catalog
\* repeats that page, any other catalog shows no anchor
ServerPage(cat, n) ==
    IF n <= Len(cat.pages) THEN cat.pages[n]
    ELSE IF cat.endless /\ cat.pages # <<>> THEN cat.pages[Len(cat.pages)]
    ELSE <<>>

\* lines 191-194: get_num of the text of a price span, None when the span is
\* missing (get_num(None) catches its TypeError)
SpanNum(has, text) == IF has THEN get_num(text) ELSE None

\* lines 206-207
IconicLink(href) ==
    IF href = <<>> THEN <<>>
    ELSE IF StartsWith(href, <<"/">>) THEN ICONIC_BASE \o href
    ELSE ICONIC_BASE \o <<"/">> \o href

\* lines 191-209 for one anchor: <<>> or the one row appended
RowsOfAnchor(a, thr) ==
    Let(SpanNum(a.hasFinal, a.final), LAMBDA price_final :
    Let(SpanNum(a.hasOriginal, a.original), LAMBDA price_original :
      IF Truthy(price_final) /\ Truthy(price_original)
           /\ price_original[1] - price_final[1] >= thr
      THEN <<[title |-> Strip(Strip(a.brand) \o <<" ">> \o Strip(a.name)),
              price |-> price_final[1],
              was   |-> price_original[1],
              diff  |-> price_original[1] - price_final[1],
              link  |-> IconicLink(Strip(a.href))]>>
      ELSE <<>>))

RECURSIVE RowsOfPage(_, _)
\* the for loop of lines 189-209 over the anchors of one page
RowsOfPage(items, thr) ==
    IF items = <<>> THEN <<>>
    ELSE RowsOfAnchor(Head(items), thr) \o RowsOfPage(Tail(items), thr)

RECURSIVE InsertByDiff(_, _)
InsertByDiff(sorted, r) ==
    IF sorted = <<>> THEN <<r>>
    ELSE IF Head(sorted).diff >= r.diff
         THEN <<Head(sorted)>> \o InsertByDiff(Tail(sorted), r)
         ELSE <<r>> \o sorted

RECURSIVE SortByDiff(_)
\* sort_values("diff", ascending=False), ties kept in their order
SortByDiff(rs) ==
    IF rs = <<>> THEN <<>>
    ELSE Let(SortByDiff(SubSeq(rs, 1, Len(rs) - 1)),
             LAMBDA sorted : InsertByDiff(sorted, rs[Len(rs)]))

P_100 == <<"$", "1", "0", "0", ".", "0", "0">>

P_443 == <<"$", "4", "4", "3", ".", "0", "0">>

P_0 == <<"$", "0", ".", "0", "0">>

P_250 == <<"$", "2", "5", "0", ".", "0", "0">>

P_1234 == <<"$", "1", ",", "2", "3", "4", ".", "5", "0">>

P_1500 == <<"$", "1", ",", "5", "0", "0", ".", "0", "0">>

\* now $100.00, was $443.00
A_Sale == [hasFinal |-> TRUE, final |-> P_100, hasOriginal |-> TRUE,
           original |-> P_443, brand |-> <<"R", "e", "d">>,
           name |-> <<"D", "r", "e", "s", "s">>, href |-> <<"/", "a">>]

\* the final price above the original one
A_Dearer == [A_Sale EXCEPT !.final = P_443, !.original = P_100,
                           !.href = <<"/", "d">>]

\* no span.price.final
A_NoFinal == [A_Sale EXCEPT !.hasFinal = FALSE, !.final = <<>>,
                            !.href = <<"/", "n">>]

\* a final price of $0.00
A_Free == [A_Sale EXCEPT !.final = P_0, !.original = P_250, !.href = <<"/", "f">>]

\* now $1,234.50, was $1,500.00
A_Big == [A_Sale EXCEPT !.final = P_1234, !.original = P_1500,
                        !.href = <<"/", "g">>]

\* soup.select("a.product-details") of the pages the site may show
ListingPages == {<<>>, <<A_Sale, A_Dearer>>, <<A_NoFinal, A_Big>>, <<A_Free>>}

Catalogs ==
    {[pages |-> ps, endless |-> e] :
        ps \in SeqsUpTo(ListingPages, MaxPages), e \in BOOLEAN}

\* int(sys.argv[2]) in hundredths: -500, 0 (the default of scrape_iconic) and
\* 200 (the default of the command line)
Thresholds == {-50000, 0, 20000}

SInit ==
    /\ catalog \in Catalogs
    /\ threshold \in Thresholds
    /\ page = 1
    /\ rows = <<>>
    /\ s_pc = "loop"
    /\ requested = <<>>
    /\ seen = <<>>
    /\ df = <<>>

\* line 183: http_request raises; nothing catches it
SFetchFail ==
    /\ s_pc = "loop"
    /\ page <= MaxFetch
    /\ requested' = Append(requested, _turn_page(page))
    /\ s_pc' = "raised"
    /\ UNCHANGED <<catalog, threshold, page, rows, seen, df>>
    /\ UNCHANGED <<mvars, hvars, ovars>>

\* lines 182-211: a page with product anchors
SPage ==
    /\ s_pc = "loop"
    /\ page <= MaxFetch
    /\ \E items \in {ServerPage(catalog, PageOfUrl(_turn_page(page)))} :
          /\ items # <<>>
          /\ rows' = rows \o RowsOfPage(items, threshold)
          /\ seen' = Append(seen, Len(items))
    /\ requested' = Append(requested, _turn_page(page))
    /\ page' = page + 1
    /\ UNCHANGED <<catalog, threshold, s_pc, df>>
    /\ UNCHANGED <<mvars, hvars, ovars>>

\* an empty page skipped instead of ending the loop
SBreak_SkipEmpty ==
    /\ s_pc = "loop"
    /\ page <= MaxFetch
    /\ ServerPage(catalog, PageOfUrl(_turn_page(page))) = <<>>
    /\ requested' = Append(requested, _turn_page(page))
    /\ seen' = Append(seen, 0)
    /\ page' = page + 1
    /\ UNCHANGED <<catalog, threshold, s_pc, rows, df>>
    /\ UNCHANGED <<mvars, hvars, ovars>>

\* lines 182-187: a page without product anchors, break
SBreak ==
    /\ s_pc = "loop"
    /\ page <= MaxFetch
    /\ ServerPage(catalog, PageOfUrl(_turn_page(page))) = <<>>
    /\ requested' = Append(requested, _turn_page(page))
    /\ seen' = Append(seen, 0)
    /\ s_pc' = "sort"
    /\ UNCHANGED <<catalog, threshold, page, rows, df>>
    /\ UNCHANGED <<mvars, hvars, ovars>>

\* lines 213-217
SReturn ==
    /\ s_pc = "sort"
    /\ df' = SortByDiff(rows)
    /\ s_pc' = "done"
    /\ UNCHANGED <<catalog, threshold, page, rows, requested, seen>>
    /\ UNCHANGED <<mvars, hvars, ovars>>

SNext == SFetchFail \/ SPage \/ SBreak \/ SReturn

\* ------------------------------------------------------------------------
\* http_request: the retry loop
\* ------------------------------------------------------------------------

MaxRetries == 2

\* the values of the parameter retries (2 is its default)
RetriesSet == (0 - 1)..MaxRetries

Urls == {"https://www.davidjones.com/search?q=",
         "https://www.davidjones.com/routes/special-offers"}

\* range(max(1, retries))
Attempts(r) == Max2(1, r)

NoOut == [kind |-> "none", attempt |-> 0, url |-> ""]

HInit ==
    /\ h_url \in Urls
    /\ h_retries \in RetriesSet
    /\ h_pc = "verified"
    /\ h_iter = 0
    /\ h_log = <<>>
    /\ h_sleeps = 0
    /\ h_out = NoOut

\* line 140: _attempt(verify=True) returns, and so does http_request
HVerifiedOk ==
    /\ h_pc = "verified"
    /\ h_log' = Append(h_log, [verify |-> TRUE, outcome |-> "ok"])
    /\ h_out' = [kind |-> "value", attempt |-> Len(h_log) + 1, url |-> h_url]
    /\ h_pc' = "returned"
    /\ UNCHANGED <<h_url, h_retries, h_iter, h_sleeps>>
    /\ UNCHANGED <<mvars, svars, ovars>>

\* lines 140-141: _attempt(verify=True) raises requests.exceptions.SSLError
HVerifiedSSLError ==
    /\ h_pc = "verified"
    /\ h_log' = Append(h_log, [verify |-> TRUE, outcome |-> "SSLError"])
    /\ h_pc' = "fallback"
    /\ UNCHANGED <<h_url, h_retries, h_iter, h_sleeps, h_out>>
    /\ UNCHANGED <<mvars, svars, ovars>>

\* lines 140, 147-148: _attempt(verify=True) raises another Exception
HVerifiedError ==
    /\ h_pc = "verified"
    /\ h_log' = Append(h_log, [verify |-> TRUE, outcome |-> "Exception"])
    /\ h_pc' = "sleep"
    /\ UNCHANGED <<h_url, h_retries, h_iter, h_sleeps, h_out>>
    /\ UNCHANGED <<mvars, svars, ovars>>

\* lines 143-144: _attempt(verify=False) returns, and so does http_request
HFallbackOk ==
    /\ h_pc = "fallback"
    /\ h_log' = Append(h_log, [verify |-> FALSE, outcome |-> "ok"])
    /\ h_out' = [kind |-> "value", attempt |-> Len(h_log) + 1, url |-> h_url]
    /\ h_pc' = "returned"
    /\ UNCHANGED <<h_url, h_retries, h_iter, h_sleeps>>
    /\ UNCHANGED <<mvars, svars, ovars>>

\* the fallback tried again after it failed
HFallbackError_Retry ==
    /\ h_pc = "fallback"
    /\ h_log' = Append(h_log, [verify |-> FALSE, outcome |-> "Exception"])
    /\ h_pc' = "fallback"
    /\ UNCHANGED <<h_url, h_retries, h_iter, h_sleeps, h_out>>
    /\ UNCHANGED <<mvars, svars, ovars>>

\* lines 143-146: _attempt(verify=False) raises
HFallbackError ==
    /\ h_pc = "fallback"
    /\ h_log' = Append(h_log, [verify |-> FALSE, outcome |-> "Exception"])
    /\ h_pc' = "sleep"
    /\ UNCHANGED <<h_url, h_retries, h_iter, h_sleeps, h_out>>
    /\ UNCHANGED <<mvars, svars, ovars>>

\* lines 149-150 and the for statement of line 138: sleep, then the next
\* iteration or the end of the loop
HSleep ==
    /\ h_pc = "sleep"
    /\ h_sleeps' = h_sleeps + 1
    /\ h_iter' = h_iter + 1
    /\ h_pc' = IF h_iter + 1 < Attempts(h_retries) THEN "verified" ELSE "exhausted"
    /\ UNCHANGED <<h_url, h_retries, h_log, h_out>>
    /\ UNCHANGED <<mvars, svars, ovars>>

\* line 152
HRaise ==
    /\ h_pc = "exhausted"
    /\ h_out' = [kind |-> "RuntimeError", attempt |-> 0, url |-> h_url]
    /\ h_pc' = "raised"
    /\ UNCHANGED <<h_url, h_retries, h_iter, h_log, h_sleeps>>
    /\ UNCHANGED <<mvars, svars, ovars>>

HNext ==
    \/ HVerifiedOk \/ HVerifiedSSLError \/ HVerifiedError
    \/ HFallbackOk \/ HFallbackError \/ HSleep \/ HRaise

\* ------------------------------------------------------------------------
\* apply_offer_discount called on its own
\* ------------------------------------------------------------------------

O_FreeGift == <<"F", "R", "E", "E", " ", "G", "I", "F", "T", " ", "5">>

OfferTexts == {<<>>, O_Extra20, O_Save20, O_Save10pc, O_Buy2For100,
               O_GiftCardOffer, O_50GiftCard, O_FreeGift}

\* None and prices on both sides of each gift-card tier
OfferPrices == {None, Some(10000), Some(14999), Some(15000), Some(29999),
                Some(30000), Some(59999), Some(60000), Some(70000)}

OfferCurrentPrices == {None, Some(9000)}

OInit ==
    /\ o_args \in [price_plain : OfferPrices, price_now : OfferCurrentPrices,
                   offer_text : OfferTexts]
    /\ o_pc = "call"
    /\ o_ret = None

\* the call returns
OReturn ==
    /\ o_pc = "call"
    /\ \E r \in {apply_offer_discount(o_args.price_plain, o_args.price_now,
                                      o_args.offer_text)} :
          /\ ~r.raised
          /\ o_ret' = r.value
    /\ o_pc' = "returned"
    /\ UNCHANGED o_args
    /\ UNCHANGED <<mvars, svars, hvars>>

\* the call raises the TypeError of line 298
ORaise ==
    /\ o_pc = "call"
    /\ apply_offer_discount(o_args.price_plain, o_args.price_now,
                            o_args.offer_text).raised
    /\ o_pc' = "raised"
    /\ UNCHANGED <<o_args, o_ret>>
    /\ UNCHANGED <<mvars, svars, hvars>>

ONext == OReturn \/ ORaise

\* ------------------------------------------------------------------------
\* Specifications
\* ------------------------------------------------------------------------

MIdle ==
    /\ pms = <<>>
    /\ idx = 1
    /\ pc = "idle"
    /\ soup = Unbound
    /\ cur = NoInfo
    /\ pre = NoPre
    /\ matches = <<>>
    /\ compare_out = <<>>
    /\ exc = ""
    /\ delay = NoDelay
    /\ posted = 0
    /\ audit = <<>>

SIdle ==
    /\ catalog = [pages |-> <<>>, endless |-> FALSE]
    /\ threshold = 0
    /\ page = 1
    /\ rows = <<>>
    /\ s_pc = "idle"
    /\ requested = <<>>
    /\ seen = <<>>
    /\ df = <<>>

HIdle ==
    /\ h_url = ""
    /\ h_retries = 0
    /\ h_pc = "idle"
    /\ h_iter = 0
    /\ h_log = <<>>
    /\ h_sleeps = 0
    /\ h_out = NoOut

OIdle ==
    /\ o_args = [price_plain |-> None, price_now |-> None, offer_text |-> <<>>]
    /\ o_pc = "idle"
    /\ o_ret = None

\* compare_search run on a table scrape_iconic may return
Init == MInit /\ SIdle /\ HIdle /\ OIdle

Next == MNext

Spec == Init /\ [][Next]_vars

\* scrape_iconic: one thread that takes its next step whenever it has one
InitScrape == SInit /\ MIdle /\ HIdle /\ OIdle

SpecScrape == InitScrape /\ [][SNext]_vars /\ WF_vars(SNext)

\* one call of http_request
InitHttp == HInit /\ MIdle /\ SIdle /\ OIdle

SpecHttp == InitHttp /\ [][HNext]_vars /\ WF_vars(HNext)

\* one call of apply_offer_discount
InitOffer == OInit /\ MIdle /\ SIdle /\ HIdle

SpecOffer == InitOffer /\ [][ONext]_vars

\* ------------------------------------------------------------------------
\* Properties of compare_search (checked under Spec)
\* ------------------------------------------------------------------------

\* C1: a failed search fetch for one candidate never raises out of
\* compare_search, also when the failing candidate is the first one: when
\* compare_search has raised, the search fetch of the current candidate had
\* not failed.
C1_FetchFailureNeverRaises == ~(pc = "raised" /\ delay = FailDelay)

\* C2: a candidate whose search fetch failed contributes no record: every
\* emitted record was built from the search response fetched for its own
\* candidate, never from the response of an earlier candidate.
C2_RecordsFromOwnResponse ==
    \A k \in 1..Len(audit) : audit[k].of = audit[k].cand

\* C3: every record of the output passed the three gate conditions: the
\* matched product's effective was equals the candidate's was, the Jaccard
\* similarity of the two titles' token sets is at least 0.9, and
\* price_diff = price_dj - price_pm > 100; so no pair of similarity 0.5 is
\* in the output.
C3_RecordsPassTheGate ==
    /\ Len(audit) = Len(matches)
    /\ \A k \in 1..Len(matches) :
          LET r     == matches[k]
              inter == Cardinality(_tokens(r.title_dj) \cap _tokens(r.title_pm))
              union == Cardinality(_tokens(r.title_dj) \cup _tokens(r.title_pm))
          IN  /\ audit[k].was_dj = Some(audit[k].was_pm)
              /\ audit[k].was_pm = pms[audit[k].cand].was
              /\ r.title_pm = pms[audit[k].cand].title
              /\ r.price_pm = pms[audit[k].cand].price
              /\ inter >= 1
              /\ 10 * inter >= 9 * union
              /\ 2 * inter # union
              /\ r.price_diff = r.price_dj - r.price_pm
              /\ r.price_diff > 10000
    /\ pc = "done" =>
          /\ Len(compare_out) = Len(matches)
          /\ \A k \in 1..Len(compare_out) :
                \E j \in 1..Len(matches) : compare_out[k] = matches[j]
    /\ pc # "done" => compare_out = <<>>

\* C3's case: a run that returned a record and whose last candidate was
\* refused although its was matched and its price gap exceeded 100: the first
\* result was "Red", half of the candidate's tokens.
C3_Witness ==
    /\ pc = "done"
    /\ compare_out # <<>>
    /\ Len(matches) < Len(pms)
    /\ cur.title = <<"R", "e", "d">>
    /\ cur.was = Some(pms[Len(pms)].was)
    /\ cur.price[1] - pms[Len(pms)].price > 10000

\* C6: a first result whose link has no trailing numeric segment does not
\* make get_product_info raise: compare_search never ends with the
\* AttributeError of line 233.
C6_MissingIdDoesNotRaise == exc # "AttributeError@233"

\* the evaluator's answer for the offer that was looked up
PreOffer == OfferPrice(pre.price, pre.was, pre.offer_text)

\* min and max over the present values of (was or price, price, discounted)
PreCandidates ==
    {o[1] : o \in {WasOrPrice(pre.price, pre.was), pre.price, PreOffer.value}
                    \ {None}}

\* price and was are those min and max, price not above and was not below
\* their values before
PriceLoweredWasRaised ==
    /\ cur.price = Some(SetMin(PreCandidates))
    /\ cur.was = Some(SetMax(PreCandidates))
    /\ pre.price # None => cur.price[1] <= pre.price[1]
    /\ pre.was # None => cur.was[1] >= pre.was[1]

PriceAndWasUnchanged == cur.price = pre.price /\ cur.was = pre.was

\* C7 as stated: when the offer yields a discounted price (any number),
\* price becomes min(was-or-price, price, discounted) <= price before and was
\* becomes max(...) >= was before; when no offer matches or no discounted
\* price is produced, price and was are unchanged.
C7_AnyDiscountedPriceIsApplied ==
    pc = "gate" =>
        IF pre.fetched /\ pre.offer_text # <<>> /\ ~PreOffer.raised
                       /\ PreOffer.value # None
        THEN PriceLoweredWasRaised
        ELSE PriceAndWasUnchanged

\* C7 as amended: the same with "a nonzero discounted price"; a discounted
\* price of 0 leaves price and was unchanged, as an absent one does.
C7_NonzeroDiscountedPriceIsApplied ==
    pc = "gate" =>
        /\ IF pre.fetched /\ pre.offer_text # <<>> /\ ~PreOffer.raised
                          /\ PreOffer.value # None /\ PreOffer.value # Some(0)
           THEN PriceLoweredWasRaised
           ELSE PriceAndWasUnchanged
        /\ pre.price # None => cur.price[1] <= pre.price[1]
        /\ pre.was # None => cur.was[1] >= pre.was[1]

\* C7's case: "EXTRA 20% OFF" took the price from 220.00 down to 176.00
C7_Witness ==
    /\ pc = "gate"
    /\ pre.offer_text = O_Extra20
    /\ pre.price = Some(22000)
    /\ cur.price = Some(17600)
    /\ cur.was = pre.was

C4_DiffNonNegative ==
    \A k \in 1..Len(rows) :
        /\ rows[k].diff = rows[k].was - rows[k].price
        /\ rows[k].diff >= 0
        /\ rows[k].diff >= threshold

\* the first page of the catalog without product anchors, 0 if it has none
FirstEmptyPage ==
    LET empties == {n \in 1..(Len(catalog.pages) + 1) :
                       ServerPage(catalog, n) = <<>>}
    IN  IF empties = {} THEN 0 ELSE SetMin(empties)

RECURSIVE RowsUpTo(_)
\* the qualifying items of pages 1..n, in page order
RowsUpTo(n) ==
    IF n = 0 THEN <<>>
    ELSE RowsUpTo(n - 1) \o RowsOfPage(ServerPage(catalog, n), threshold)

C8_Safety ==
    \* the k-th request is for page k
    /\ \A k \in 1..Len(requested) :
          requested[k] = IF k = 1 THEN <<>> ELSE <<"page", k>>
    \* every page before the last requested one had product anchors
    /\ \A k \in 1..(Len(seen) - 1) : seen[k] > 0
    /\ \A k \in 1..Len(seen) : seen[k] = Len(ServerPage(catalog, k))
    \* the loop is left at the first empty page, which is the last request
    /\ s_pc \in {"sort", "done"} =>
          /\ Len(requested) = FirstEmptyPage
          /\ Len(seen) = FirstEmptyPage
          /\ rows = RowsUpTo(FirstEmptyPage - 1)
    \* the returned table holds the rows of the earlier pages, sorted
    /\ s_pc = "done" =>
          /\ df = SortByDiff(RowsUpTo(FirstEmptyPage - 1))
          /\ \A k \in 1..(Len(df) - 1) : df[k].diff >= df[k + 1].diff
    /\ s_pc # "done" => df = <<>>

\* C8: pages are fetched in the order 1, 2, 3, ...; the scraper stops at the
\* first page without product anchors, fetches none after it and returns
\* exactly the qualifying items of the earlier pages; and it ends (returns,
\* or raises because a fetch failed) whenever the catalog has an empty page.
C8_StopsAtFirstEmptyPage ==
    /\ []C8_Safety
    /\ (FirstEmptyPage # 0) => <>(s_pc \in {"done", "raised"})

\* C8's case: items were returned, the second page was empty and the third
\* page, which has product anchors, was never requested
C8_Witness ==
    /\ s_pc = "done"
    /\ df # <<>>
    /\ Len(requested) = 2
    /\ Len(catalog.pages) = 3
    /\ catalog.pages[3] # <<>>

\* ------------------------------------------------------------------------
\* Properties of http_request (checked under SpecHttp)
\* ------------------------------------------------------------------------

VerifiedAttempts == Cardinality({k \in 1..Len(h_log) : h_log[k].verify})

UnverifiedAttempts == Cardinality({k \in 1..Len(h_log) : ~h_log[k].verify})

C9_Attempts ==
    \* at most max(1, r) certificate-verified attempts
    /\ VerifiedAttempts <= (IF h_retries >= 1 THEN h_retries ELSE 1)
    \* the value returned is that of the first attempt that succeeded
    /\ h_pc = "returned" =>
          /\ h_out.kind = "value"
          /\ h_out.attempt = Len(h_log)
          /\ h_log[Len(h_log)].outcome = "ok"
          /\ \A k \in 1..(Len(h_log) - 1) : h_log[k].outcome # "ok"
    \* the error carries the URL and is raised after all attempts failed
    /\ h_out.kind = "RuntimeError" =>
          /\ h_pc = "raised"
          /\ h_out.url = h_url
          /\ VerifiedAttempts = (IF h_retries >= 1 THEN h_retries ELSE 1)
          /\ \A k \in 1..Len(h_log) : h_log[k].outcome # "ok"
    /\ h_pc = "raised" => h_out.kind = "RuntimeError"

\* C9 as stated: the above, and at most one unverified-TLS fallback attempt
\* per call of http_request.
C9_OneFallbackPerCall == C9_Attempts /\ UnverifiedAttempts <= 1

\* C9 as amended: the above, and at most one unverified-TLS fallback attempt
\* per certificate-verified attempt, made right after that attempt failed
\* certificate verification (so at most max(1, r) per call).
C9_OneFallbackPerAttempt ==
    /\ C9_Attempts
    /\ \A k \in 1..Len(h_log) :
          ~h_log[k].verify =>
              /\ k > 1
              /\ h_log[k - 1].verify
              /\ h_log[k - 1].outcome = "SSLError"
    /\ UnverifiedAttempts <= VerifiedAttempts

\* C9's case: a call with retries = 2 that raised after two verified attempts
\* failed certificate verification and both fallbacks failed
C9_Witness ==
    /\ h_pc = "raised"
    /\ h_retries = 2
    /\ VerifiedAttempts = 2
    /\ UnverifiedAttempts = 2

\* ------------------------------------------------------------------------
\* Properties of apply_offer_discount (checked under SpecOffer)
\* ------------------------------------------------------------------------

\* C5: for an offer text that contains "GIFT CARD" and does not start with
\* EXTRA, SAVE or BUY, and a price that is present, the result is price - 150
\* when price >= 600, price - 50 when 300 <= price < 600, price - 20 when
\* 150 <= price < 300, and absent when price < 150.
C5_GiftCardTiers ==
    LET t == o_args.offer_text
        p == o_args.price_plain
    IN  (/\ o_pc # "call"
         /\ Contains(t, <<"G", "I", "F", "T", " ", "C", "A", "R", "D">>)
         /\ ~StartsWith(t, <<"E", "X", "T", "R", "A">>)
         /\ ~StartsWith(t, <<"S", "A", "V", "E">>)
         /\ ~StartsWith(t, <<"B", "U", "Y">>)
         /\ p # None)
        => /\ o_pc = "returned"
           /\ o_ret = IF p[1] >= 60000 THEN Some(p[1] - 15000)
                      ELSE IF p[1] >= 30000 THEN Some(p[1] - 5000)
                      ELSE IF p[1] >= 15000 THEN Some(p[1] - 2000)
                      ELSE None

====
